---- MODULE Spec2Model ----
(***************************************************************************)
(* core-dump-composer: the deadline supervisor (main) and the capture-and- *)
(* archive pipeline (handle) of src/core-dump-composer/src/main.rs, as a   *)
(* state machine over the file system the runs share: the destination      *)
(* archives with their advisory locks, the scratch directory /tmp/core and *)
(* the event directory.                                                    *)
(***************************************************************************)
EXTENDS Integers, Sequences, FiniteSets, TLC

(* Longest container list the inspection tool returns in the model. *)
MaxContainers == 3

Runs == {1, 2}
Paths == {"a", "b"}
TimeoutCode == 32

VARIABLES
  active,           \* the runs of this behaviour (processes started)
  env,              \* what the surroundings of the runs can do (see Environments)
  cfg,              \* cc: ignore_crio, core_events, pod_selector_label set, tar path
  pc,               \* position of the worker thread in handle
  chan,             \* the mpsc channel between worker and main
  exitCode,         \* {} while the process runs, then {its exit status}
  deadlineElapsed,  \* recv_timeout ran into its deadline
  pod_object,       \* result of cli.pod, json!({}) after a failure
  namespace,        \* cc.namespace
  podname,          \* cc.podname
  ps_object,        \* container list returned by cli.pod_containers
  counter,          \* index of the per-container loop
  images,           \* the images vector
  tar_core,         \* state of the file / tar::Builder handle of the worker
  arch,             \* destination paths: exists, sealed, files, lockedBy (set of runs)
  scratch,          \* /tmp/core: exists, files
  events,           \* event records written
  staged,           \* history: artifacts each run wrote to the scratch directory
  ioFault,          \* history: the positions at which a file-system call of the run failed
  toolFail,         \* history: inspection-tool calls of the run that failed
  contended         \* history: the run created its archive while another held its lock

procVars == <<chan, exitCode, deadlineElapsed>>
podVars == <<pod_object, namespace, podname>>
loopVars == <<ps_object, counter, images>>
fsVars == <<arch, scratch, events, staged>>
histVars == <<ioFault, toolFail, contended>>
vars == <<active, env, cfg, pc, procVars, podVars, loopVars, tar_core, fsVars, histVars>>

(***************************************************************************)
(* Values                                                                  *)
(***************************************************************************)
\* A pod object as the code reads it: "labels" (absent, or a mapping with or
\* without the selector key), metadata.namespace, metadata.name and id (each
\* a string or absent).
PodShapes ==
  [labels : {"absent", "nokey", "haskey"},
   ns : {"none", "ns1"},
   name : {"none", "pod1"},
   id : {"none", "id1"}]

FullPod == [labels |-> "haskey", ns |-> "ns1", name |-> "pod1", id |-> "id1"]

\* The pod objects the inspection tool returns in the model: the full one
\* and those that differ from it in one field.
PodObjects ==
  {o \in PodShapes :
     Cardinality({k \in {"labels", "ns", "name", "id"} : o[k] # FullPod[k]}) <= 1}

\* json!({})
EmptyObject == [labels |-> "absent", ns |-> "none", name |-> "none", id |-> "none"]

\* as_str().unwrap_or("unknown")
StrOrUnknown(v) == IF v = "none" THEN "unknown" ELSE v

\* A container list: for each container whether it carries an imageRef.
ContainerLists == UNION {[1..n -> BOOLEAN] : n \in 0..MaxContainers}

Configs ==
  [ignore_crio : BOOLEAN, core_events : BOOLEAN, selector : BOOLEAN, dest : Paths]

\* The positions of the worker at which it calls the file system.
IoSites ==
  {"init_logger", "create_tar", "lock_tar", "mkdir", "write_info", "create_core",
   "lock_core", "copy", "encoder_finish", "nc_event", "nc_append", "nc_finish",
   "nc_rm", "write_pod", "write_inspect", "write_ps", "container_log",
   "container_image", "append", "finish", "rm", "event", "abort_finish_rm",
   "abort_finish", "abort_rm", "unwind_ok", "unwind_err", "panic"}

\* The surroundings of a behaviour: the calls on the file system that can
\* fail for reasons outside the model (a full disk, a missing permission),
\* the replies cli.pod can give and the container lists cli.pod_containers
\* can give. Every inspection-tool call can fail in every environment.
AnyEnvironment == [io_errors |-> IoSites, pods |-> PodObjects, lists |-> ContainerLists]
\* The disk fails only on the staging files of the dump and of the pod info
\* and on the removal that follows a failure.
StagingFaultEnvironment ==
  [io_errors |-> {"create_core", "write_pod", "abort_rm"},
   pods |-> PodObjects, lists |-> ContainerLists]
QuietEnvironment ==
  [io_errors |-> {}, pods |-> {FullPod},
   lists |-> {cs \in ContainerLists : Len(cs) = 1 /\ cs[1]}]

Artifact(r, kind, idx, data) == [run |-> r, kind |-> kind, idx |-> idx, data |-> data]

NoArchive == [exists |-> FALSE, sealed |-> FALSE, files |-> {}, lockedBy |-> {}]
NoScratch == [exists |-> FALSE, files |-> {}]

\* The kernel drops the advisory locks of a process whose descriptors close.
Released(a, r) ==
  [p \in Paths |-> [a[p] EXCEPT !.lockedBy = @ \ {r}]]

Kinds(files) == {f.kind : f \in files}

(***************************************************************************)
(* Initial states                                                          *)
(***************************************************************************)
InitCommon ==
  /\ cfg \in [Runs -> Configs]
  /\ pc = [r \in Runs |-> "init_logger"]
  /\ chan = [r \in Runs |-> "empty"]
  /\ exitCode = [r \in Runs |-> {}]
  /\ deadlineElapsed = [r \in Runs |-> FALSE]
  /\ pod_object = [r \in Runs |-> EmptyObject]
  /\ namespace = [r \in Runs |-> "unset"]
  /\ podname = [r \in Runs |-> "unset"]
  /\ ps_object = [r \in Runs |-> <<>>]
  /\ counter = [r \in Runs |-> 0]
  /\ images = [r \in Runs |-> <<>>]
  /\ tar_core = [r \in Runs |-> "none"]
  /\ arch = [p \in Paths |-> NoArchive]
  /\ scratch = NoScratch
  /\ events = {}
  /\ staged = [r \in Runs |-> {}]
  /\ ioFault = [r \in Runs |-> {}]
  /\ toolFail = [r \in Runs |-> {}]
  /\ contended = [r \in Runs |-> FALSE]

\* One crash event: a single run of the program.
Init ==
  /\ active = {1}
  /\ env = AnyEnvironment
  /\ InitCommon
  /\ cfg[1].dest = "a"
  /\ cfg[2] = [ignore_crio |-> FALSE, core_events |-> FALSE, selector |-> FALSE, dest |-> "b"]

\* Two crash events at once: two runs of the program on one host, for the
\* same destination path or for two.
InitTwo ==
  /\ active = Runs
  /\ env = QuietEnvironment
  /\ InitCommon
  /\ cfg[1].dest = "a"
  /\ \A r \in Runs : ~cfg[r].selector
  /\ cfg[2].ignore_crio /\ ~cfg[2].core_events

\* One crash event, no label selector configured, on a disk that fails on
\* the staging files only.
InitStagingFaults ==
  /\ active = {1}
  /\ env = StagingFaultEnvironment
  /\ InitCommon
  /\ cfg[1].dest = "a" /\ ~cfg[1].selector
  /\ cfg[2] = [ignore_crio |-> FALSE, core_events |-> FALSE, selector |-> FALSE, dest |-> "b"]

(***************************************************************************)
(* Shorthands of the actions                                               *)
(***************************************************************************)
Alive(r) == r \in active /\ exitCode[r] = {}
At(r, l) == Alive(r) /\ pc[r] = l
Goto(r, l) == pc' = [pc EXCEPT ![r] = l]
Faulted(r) == ioFault' = [ioFault EXCEPT ![r] = @ \cup {pc[r]}]
ToolFailed(r, t) == toolFail' = [toolFail EXCEPT ![r] = @ \cup {t}]
Dest(r) == cfg[r].dest

\* process::exit(code): the process ends at once, no destructor runs, the
\* kernel closes its descriptors.
ProcessExit(r, code) ==
  /\ exitCode' = [exitCode EXCEPT ![r] = {code}]
  /\ arch' = Released(arch, r)

\* fs::write / File::create of a staging file: the file replaces one of the
\* same name.
SameName(f, g) == f.run = g.run /\ f.kind = g.kind /\ f.idx = g.idx
Put(files, f) == {g \in files : ~SameName(f, g)} \cup {f}
Stage(r, f) ==
  /\ scratch' = [scratch EXCEPT !.files = Put(@, f)]
  /\ staged' = [staged EXCEPT ![r] = Put(@, f)]

\* Outcomes of the worker's call on the file system: it succeeds only where
\* `possible`, and it can fail where the environment has I/O errors.
IoOutcomes(r, possible) ==
  IF possible THEN (IF pc[r] \in env.io_errors THEN BOOLEAN ELSE {TRUE}) ELSE {FALSE}

\* tar_core.finish(): the builder counts as finished whatever the write of
\* the footer returns.
Seal(r, ok) ==
  /\ tar_core' = [tar_core EXCEPT ![r] = "finished"]
  /\ arch' = [arch EXCEPT ![Dest(r)].sealed = @ \/ ok]

\* Mutant of LoopHead: the loop does not look at the imageRef.
LoopHead_NoCheck(containers, k) ==
  IF k < Len(containers) THEN "container_log" ELSE "append"

\* The head of the per-container loop: the next container, or the end of
\* the loop when the list is exhausted or the container has no imageRef.
LoopHead(containers, k) ==
  IF k < Len(containers) /\ containers[k + 1] THEN "container_log" ELSE "append"

(***************************************************************************)
(* The worker: handle                                                      *)
(***************************************************************************)
InitLogger(r) ==
  /\ At(r, "init_logger")
  /\ namespace' = [namespace EXCEPT ![r] = "default"]
  /\ \E ok \in IoOutcomes(r, TRUE) :
       IF ok
       THEN Goto(r, "pod") /\ UNCHANGED ioFault
       ELSE Goto(r, "unwind_err") /\ Faulted(r)
  /\ UNCHANGED <<active, env, cfg, procVars, pod_object, podname, loopVars, tar_core,
                 fsVars, toolFail, contended>>

ResolvePod(r) ==
  /\ At(r, "pod")
  /\ \/ \E o \in env.pods :
          pod_object' = [pod_object EXCEPT ![r] = o] /\ UNCHANGED toolFail
     \/ pod_object' = [pod_object EXCEPT ![r] = EmptyObject] /\ ToolFailed(r, "pod")
  /\ Goto(r, "selector")
  /\ UNCHANGED <<active, env, cfg, procVars, namespace, podname, loopVars, tar_core,
                 fsVars, ioFault, contended>>

\* Mutant of Selector: the pod that lacks the selector label is not skipped.
Selector_NoSkip(r) ==
  /\ At(r, "selector")
  /\ IF cfg[r].selector /\ pod_object[r].labels = "absent"
     THEN /\ Goto(r, "panic")
          /\ UNCHANGED <<namespace, podname>>
     ELSE /\ namespace' = [namespace EXCEPT ![r] = StrOrUnknown(pod_object[r].ns)]
          /\ podname' = [podname EXCEPT ![r] = StrOrUnknown(pod_object[r].name)]
          /\ Goto(r, "create_tar")
  /\ UNCHANGED <<active, env, cfg, procVars, pod_object, loopVars, tar_core, fsVars,
                 histVars>>

Selector(r) ==
  /\ At(r, "selector")
  /\ IF cfg[r].selector /\ pod_object[r].labels = "absent"
     THEN /\ Goto(r, "panic")
          /\ UNCHANGED <<exitCode, arch, namespace, podname>>
     ELSE IF cfg[r].selector /\ pod_object[r].labels = "nokey"
     THEN /\ ProcessExit(r, 0)
          /\ UNCHANGED <<pc, namespace, podname>>
     ELSE /\ namespace' = [namespace EXCEPT ![r] = StrOrUnknown(pod_object[r].ns)]
          /\ podname' = [podname EXCEPT ![r] = StrOrUnknown(pod_object[r].name)]
          /\ Goto(r, "create_tar")
          /\ UNCHANGED <<exitCode, arch>>
  /\ UNCHANGED <<active, env, cfg, chan, deadlineElapsed, pod_object, loopVars, tar_core,
                 scratch, events, staged, histVars>>

CreateTar(r) ==
  /\ At(r, "create_tar")
  /\ \E ok \in IoOutcomes(r, TRUE) :
       IF ok
       THEN /\ arch' = [arch EXCEPT ![Dest(r)] =
                          [exists |-> TRUE, sealed |-> FALSE, files |-> {},
                           lockedBy |-> @.lockedBy]]
            /\ tar_core' = [tar_core EXCEPT ![r] = "file"]
            /\ contended' = [contended EXCEPT ![r] = arch[Dest(r)].lockedBy # {}]
            /\ Goto(r, "lock_tar")
            /\ UNCHANGED <<exitCode, ioFault>>
       ELSE /\ Faulted(r)
            /\ ProcessExit(r, 1)
            /\ UNCHANGED <<pc, tar_core, contended>>
  /\ UNCHANGED <<active, env, cfg, chan, deadlineElapsed, podVars, loopVars, scratch,
                 events, staged, toolFail>>

\* Mutant of LockTar: the builder is set up on the file without the lock.
LockTar_Skip(r) ==
  /\ At(r, "lock_tar")
  /\ tar_core' = [tar_core EXCEPT ![r] = "builder"]
  /\ Goto(r, "mkdir")
  /\ UNCHANGED <<active, env, cfg, procVars, podVars, loopVars, fsVars, histVars>>

LockTar(r) ==
  /\ At(r, "lock_tar")
  /\ \/ /\ arch[Dest(r)].lockedBy = {}
        /\ arch' = [arch EXCEPT ![Dest(r)].lockedBy = {r}]
        /\ tar_core' = [tar_core EXCEPT ![r] = "builder"]
        /\ Goto(r, "mkdir")
        /\ UNCHANGED ioFault
     \/ /\ pc[r] \in env.io_errors
        /\ Faulted(r)
        /\ Goto(r, "unwind_err")
        /\ UNCHANGED <<arch, tar_core>>
  /\ UNCHANGED <<active, env, cfg, procVars, podVars, loopVars, scratch, events, staged,
                 toolFail, contended>>

MkDir(r) ==
  /\ At(r, "mkdir")
  /\ \E ok \in IoOutcomes(r, TRUE) :
       IF ok
       THEN scratch' = [scratch EXCEPT !.exists = TRUE] /\ UNCHANGED ioFault
       ELSE Faulted(r) /\ UNCHANGED scratch
  /\ Goto(r, "write_info")
  /\ UNCHANGED <<active, env, cfg, procVars, podVars, loopVars, tar_core, arch, events,
                 staged, toolFail, contended>>

WriteInfo(r) ==
  /\ At(r, "write_info")
  /\ \E ok \in IoOutcomes(r, scratch.exists) :
       IF ok
       THEN /\ Stage(r, Artifact(r, "dump_info", 0, "dump_info"))
            /\ Goto(r, "create_core")
            /\ UNCHANGED ioFault
       ELSE /\ Faulted(r)
            /\ Goto(r, "abort_finish_rm")
            /\ UNCHANGED <<scratch, staged>>
  /\ UNCHANGED <<active, env, cfg, procVars, podVars, loopVars, tar_core, arch, events,
                 toolFail, contended>>

CreateCore(r) ==
  /\ At(r, "create_core")
  /\ \E ok \in IoOutcomes(r, scratch.exists) :
       IF ok
       THEN /\ Stage(r, Artifact(r, "core", 0, "empty"))
            /\ Goto(r, "lock_core")
            /\ UNCHANGED ioFault
       ELSE /\ Faulted(r)
            /\ Goto(r, "abort_rm")
            /\ UNCHANGED <<scratch, staged>>
  /\ UNCHANGED <<active, env, cfg, procVars, podVars, loopVars, tar_core, arch, events,
                 toolFail, contended>>

LockCore(r) ==
  /\ At(r, "lock_core")
  /\ \E ok \in IoOutcomes(r, TRUE) :
       IF ok
       THEN Goto(r, "copy") /\ UNCHANGED ioFault
       ELSE Goto(r, "unwind_err") /\ Faulted(r)
  /\ UNCHANGED <<active, env, cfg, procVars, podVars, loopVars, tar_core, fsVars,
                 toolFail, contended>>

\* A write through the open descriptor of the core file: it reaches the
\* scratch directory only while the file is still linked there.
CoreData(r, data) ==
  IF \E f \in scratch.files : SameName(f, Artifact(r, "core", 0, data))
  THEN Stage(r, Artifact(r, "core", 0, data))
  ELSE UNCHANGED <<scratch, staged>>

CopyDump(r) ==
  /\ At(r, "copy")
  /\ \E ok \in IoOutcomes(r, TRUE) :
       IF ok
       THEN /\ CoreData(r, "gz_body")
            /\ Goto(r, "encoder_finish")
            /\ UNCHANGED ioFault
       ELSE /\ Faulted(r)
            /\ Goto(r, "abort_rm")
            /\ UNCHANGED <<scratch, staged>>
  /\ UNCHANGED <<active, env, cfg, procVars, podVars, loopVars, tar_core, arch, events,
                 toolFail, contended>>

\* Mutant of EncoderFinish: the pipeline goes on while the end of the
\* compressed stream is still unwritten.
EncoderFinish_NoFlush(r) ==
  /\ At(r, "encoder_finish")
  /\ Goto(r, IF cfg[r].ignore_crio
             THEN (IF cfg[r].core_events THEN "nc_event" ELSE "nc_append")
             ELSE "write_pod")
  /\ UNCHANGED <<active, env, cfg, procVars, podVars, loopVars, tar_core, fsVars,
                 histVars>>

EncoderFinish(r) ==
  /\ At(r, "encoder_finish")
  /\ \E ok \in IoOutcomes(r, TRUE) :
       IF ok
       THEN /\ CoreData(r, "gz")
            /\ Goto(r, IF cfg[r].ignore_crio
                       THEN (IF cfg[r].core_events THEN "nc_event" ELSE "nc_append")
                       ELSE "write_pod")
            /\ UNCHANGED ioFault
       ELSE /\ Faulted(r)
            /\ Goto(r, "unwind_err")
            /\ UNCHANGED <<scratch, staged>>
  /\ UNCHANGED <<active, env, cfg, procVars, podVars, loopVars, tar_core, arch, events,
                 toolFail, contended>>

\* The skip-correlation branch (cc.ignore_crio).
NcEvent(r) ==
  /\ At(r, "nc_event")
  /\ \E ok \in IoOutcomes(r, TRUE) :
       IF ok
       THEN /\ events' = events \cup {[run |-> r, kind |-> "no_crio"]}
            /\ Goto(r, "nc_append")
            /\ UNCHANGED ioFault
       ELSE /\ Faulted(r)
            /\ Goto(r, "unwind_err")
            /\ UNCHANGED events
  /\ UNCHANGED <<active, env, cfg, procVars, podVars, loopVars, tar_core, arch, scratch,
                 staged, toolFail, contended>>

\* tar_core.append_dir_all("core", "/tmp/core").unwrap(): everything the
\* scratch directory holds goes into the archive.
AppendDirAll(r, ok, next) ==
  IF ok
  THEN /\ arch' = [arch EXCEPT ![Dest(r)].files = @ \cup scratch.files]
       /\ Goto(r, next)
       /\ UNCHANGED ioFault
  ELSE /\ Faulted(r)
       /\ Goto(r, "panic")
       /\ UNCHANGED arch

\* Mutant of NcAppend: the archive is finalized without the scratch
\* directory, as on the failure paths.
NcAppend_Nothing(r) ==
  /\ At(r, "nc_append")
  /\ Goto(r, "nc_finish")
  /\ UNCHANGED <<active, env, cfg, procVars, podVars, loopVars, tar_core, fsVars,
                 histVars>>

NcAppend(r) ==
  /\ At(r, "nc_append")
  /\ \E ok \in IoOutcomes(r, scratch.exists) : AppendDirAll(r, ok, "nc_finish")
  /\ UNCHANGED <<active, env, cfg, procVars, podVars, loopVars, tar_core, scratch, events,
                 staged, toolFail, contended>>

NcFinish(r) ==
  /\ At(r, "nc_finish")
  /\ \E ok \in IoOutcomes(r, TRUE) :
       /\ Seal(r, ok)
       /\ IF ok
          THEN Goto(r, "nc_rm") /\ UNCHANGED ioFault
          ELSE Goto(r, "unwind_err") /\ Faulted(r)
  /\ UNCHANGED <<active, env, cfg, procVars, podVars, loopVars, scratch, events, staged,
                 toolFail, contended>>

\* remove_dir_all("/tmp/core").unwrap()
RemoveOrPanic(r, ok, next) ==
  IF ok
  THEN /\ scratch' = NoScratch
       /\ Goto(r, next)
       /\ UNCHANGED ioFault
  ELSE /\ Faulted(r)
       /\ Goto(r, "panic")
       /\ UNCHANGED scratch

NcRemove(r) ==
  /\ At(r, "nc_rm")
  /\ \E ok \in IoOutcomes(r, scratch.exists) : RemoveOrPanic(r, ok, "exit0")
  /\ UNCHANGED <<active, env, cfg, procVars, podVars, loopVars, tar_core, arch, events,
                 staged, toolFail, contended>>

\* The correlation branch.
WritePod(r) ==
  /\ At(r, "write_pod")
  /\ \E ok \in IoOutcomes(r, scratch.exists) :
       IF ok
       THEN /\ Stage(r, Artifact(r, "pod", 0,
                         IF pod_object[r] = EmptyObject THEN "{}" ELSE "pod_object"))
            /\ Goto(r, IF pod_object[r].id = "none" THEN "abort_finish_rm"
                       ELSE "inspect_pod")
            /\ UNCHANGED ioFault
       ELSE /\ Faulted(r)
            /\ Goto(r, "abort_finish")
            /\ UNCHANGED <<scratch, staged>>
  /\ UNCHANGED <<active, env, cfg, procVars, podVars, loopVars, tar_core, arch, events,
                 toolFail, contended>>

\* Mutant of InspectPod: a failed inspection of the pod is fatal, like a
\* failed listing of its containers.
InspectPod_Escalates(r) ==
  /\ At(r, "inspect_pod")
  /\ \/ Goto(r, "write_inspect") /\ UNCHANGED toolFail
     \/ Goto(r, "abort_finish_rm") /\ ToolFailed(r, "inspect_pod")
  /\ UNCHANGED <<active, env, cfg, procVars, podVars, loopVars, tar_core, fsVars, ioFault,
                 contended>>

InspectPod(r) ==
  /\ At(r, "inspect_pod")
  /\ \E got \in BOOLEAN :
       IF got THEN UNCHANGED toolFail ELSE ToolFailed(r, "inspect_pod")
  /\ Goto(r, "write_inspect")
  /\ UNCHANGED <<active, env, cfg, procVars, podVars, loopVars, tar_core, fsVars, ioFault,
                 contended>>

\* The bytes written are the file name, cc.get_inspect_pod_filename().
WriteInspect(r) ==
  /\ At(r, "write_inspect")
  /\ \E ok \in IoOutcomes(r, scratch.exists) :
       IF ok
       THEN /\ Stage(r, Artifact(r, "inspect_pod", 0, "inspect_pod_filename"))
            /\ Goto(r, "pod_containers")
            /\ UNCHANGED ioFault
       ELSE /\ Faulted(r)
            /\ Goto(r, "abort_finish_rm")
            /\ UNCHANGED <<scratch, staged>>
  /\ UNCHANGED <<active, env, cfg, procVars, podVars, loopVars, tar_core, arch, events,
                 toolFail, contended>>

PodContainers(r) ==
  /\ At(r, "pod_containers")
  /\ \/ \E cs \in env.lists :
          /\ ps_object' = [ps_object EXCEPT ![r] = cs]
          /\ Goto(r, "write_ps")
          /\ UNCHANGED toolFail
     \/ /\ ToolFailed(r, "pod_containers")
        /\ Goto(r, "abort_finish_rm")
        /\ UNCHANGED ps_object
  /\ UNCHANGED <<active, env, cfg, procVars, podVars, counter, images, tar_core, fsVars,
                 ioFault, contended>>

WritePs(r) ==
  /\ At(r, "write_ps")
  /\ \E ok \in IoOutcomes(r, scratch.exists) :
       IF ok
       THEN /\ Stage(r, Artifact(r, "ps", 0, "ps_object"))
            /\ Goto(r, LoopHead(ps_object[r], 0))
            /\ UNCHANGED ioFault
       ELSE /\ Faulted(r)
            /\ Goto(r, "abort_finish_rm")
            /\ UNCHANGED <<scratch, staged>>
  /\ UNCHANGED <<active, env, cfg, procVars, podVars, loopVars, tar_core, arch, events,
                 toolFail, contended>>

\* cli.tail_logs and the write of the container's log file.
ContainerLog(r) ==
  /\ At(r, "container_log")
  /\ \E got \in BOOLEAN, ok \in IoOutcomes(r, scratch.exists) :
       /\ IF got THEN UNCHANGED toolFail ELSE ToolFailed(r, "tail_logs")
       /\ IF ok
          THEN /\ Stage(r, Artifact(r, "log", counter[r], IF got THEN "log" ELSE ""))
               /\ Goto(r, "container_image")
               /\ UNCHANGED ioFault
          ELSE /\ Faulted(r)
               /\ Goto(r, "abort_finish_rm")
               /\ UNCHANGED <<scratch, staged>>
  /\ UNCHANGED <<active, env, cfg, procVars, podVars, loopVars, tar_core, arch, events,
                 contended>>

\* cli.image, images.push and the write of the container's image file.
ContainerImage(r) ==
  /\ At(r, "container_image")
  /\ \E got \in BOOLEAN, ok \in IoOutcomes(r, scratch.exists) :
       LET image == IF got THEN "image" ELSE "{}" IN
       /\ IF got THEN UNCHANGED toolFail ELSE ToolFailed(r, "image")
       /\ images' = [images EXCEPT ![r] = Append(@, image)]
       /\ IF ok
          THEN /\ Stage(r, Artifact(r, "image", counter[r], image))
               /\ counter' = [counter EXCEPT ![r] = @ + 1]
               /\ Goto(r, LoopHead(ps_object[r], counter[r] + 1))
               /\ UNCHANGED ioFault
          ELSE /\ Faulted(r)
               /\ Goto(r, "abort_finish_rm")
               /\ UNCHANGED <<scratch, staged, counter>>
  /\ UNCHANGED <<active, env, cfg, procVars, podVars, ps_object, tar_core, arch, events,
                 contended>>

TarAppend(r) ==
  /\ At(r, "append")
  /\ \E ok \in IoOutcomes(r, scratch.exists) : AppendDirAll(r, ok, "finish")
  /\ UNCHANGED <<active, env, cfg, procVars, podVars, loopVars, tar_core, scratch, events,
                 staged, toolFail, contended>>

TarFinish(r) ==
  /\ At(r, "finish")
  /\ \E ok \in IoOutcomes(r, TRUE) :
       /\ Seal(r, ok)
       /\ IF ok
          THEN Goto(r, "rm") /\ UNCHANGED ioFault
          ELSE Goto(r, "unwind_err") /\ Faulted(r)
  /\ UNCHANGED <<active, env, cfg, procVars, podVars, loopVars, scratch, events, staged,
                 toolFail, contended>>

\* The removal on the success path: a failure is printed and nothing more.
RemoveScratch(r) ==
  /\ At(r, "rm")
  /\ \E ok \in IoOutcomes(r, scratch.exists) :
       IF ok
       THEN scratch' = NoScratch /\ UNCHANGED ioFault
       ELSE Faulted(r) /\ UNCHANGED scratch
  /\ Goto(r, IF cfg[r].core_events THEN "event" ELSE "unwind_ok")
  /\ UNCHANGED <<active, env, cfg, procVars, podVars, loopVars, tar_core, arch, events,
                 staged, toolFail, contended>>

WriteEvent(r) ==
  /\ At(r, "event")
  /\ \E ok \in IoOutcomes(r, TRUE) :
       IF ok
       THEN /\ events' = events \cup {[run |-> r, kind |-> "full"]}
            /\ Goto(r, "unwind_ok")
            /\ UNCHANGED ioFault
       ELSE /\ Faulted(r)
            /\ Goto(r, "unwind_err")
            /\ UNCHANGED events
  /\ UNCHANGED <<active, env, cfg, procVars, podVars, loopVars, tar_core, arch, scratch,
                 staged, toolFail, contended>>

\* Mutant of AbortFinish: the commented-out file.unlock() is executed.
AbortFinish_Unlocks(r) ==
  /\ Alive(r)
  /\ pc[r] \in {"abort_finish_rm", "abort_finish"}
  /\ \E ok \in IoOutcomes(r, TRUE) :
       /\ tar_core' = [tar_core EXCEPT ![r] = "finished"]
       /\ arch' = [arch EXCEPT ![Dest(r)].sealed = @ \/ ok,
                               ![Dest(r)].lockedBy = @ \ {r}]
       /\ IF ok
          THEN /\ Goto(r, IF pc[r] = "abort_finish_rm" THEN "abort_rm" ELSE "exit1")
               /\ UNCHANGED ioFault
          ELSE Goto(r, "unwind_err") /\ Faulted(r)
  /\ UNCHANGED <<active, env, cfg, procVars, podVars, loopVars, scratch, events, staged,
                 toolFail, contended>>

\* The failure sites that finalize the archive: tar_core.finish()?, with the
\* removal of the scratch directory after it at every site but the pod file's.
AbortFinish(r) ==
  /\ Alive(r)
  /\ pc[r] \in {"abort_finish_rm", "abort_finish"}
  /\ \E ok \in IoOutcomes(r, TRUE) :
       /\ Seal(r, ok)
       /\ IF ok
          THEN /\ Goto(r, IF pc[r] = "abort_finish_rm" THEN "abort_rm" ELSE "exit1")
               /\ UNCHANGED ioFault
          ELSE Goto(r, "unwind_err") /\ Faulted(r)
  /\ UNCHANGED <<active, env, cfg, procVars, podVars, loopVars, scratch, events, staged,
                 toolFail, contended>>

AbortRemove(r) ==
  /\ At(r, "abort_rm")
  /\ \E ok \in IoOutcomes(r, scratch.exists) : RemoveOrPanic(r, ok, "exit1")
  /\ UNCHANGED <<active, env, cfg, procVars, podVars, loopVars, tar_core, arch, events,
                 staged, toolFail, contended>>

\* process::exit(0) and process::exit(1) of the worker.
WorkerExit(r) ==
  /\ Alive(r)
  /\ pc[r] \in {"exit0", "exit1"}
  /\ ProcessExit(r, IF pc[r] = "exit0" THEN 0 ELSE 1)
  /\ UNCHANGED <<active, env, cfg, pc, chan, deadlineElapsed, podVars, loopVars, tar_core,
                 scratch, events, staged, histVars>>

\* handle returns or panics: its locals are dropped (the drop of a builder
\* not yet finished writes the footer and ignores the result, the drop of the
\* file closes it), then the result is sent or, after a panic, the sender is
\* dropped.
Unwind(r) ==
  /\ Alive(r)
  /\ pc[r] \in {"unwind_ok", "unwind_err", "panic"}
  /\ \E ok \in IoOutcomes(r, tar_core[r] = "builder") :
       /\ arch' = [p \in Paths |->
                     IF p = Dest(r) /\ tar_core[r] # "none"
                     THEN [arch[p] EXCEPT !.sealed = @ \/ ok, !.lockedBy = @ \ {r}]
                     ELSE arch[p]]
       /\ IF tar_core[r] = "builder" /\ ~ok THEN Faulted(r) ELSE UNCHANGED ioFault
  /\ tar_core' = [tar_core EXCEPT ![r] = "none"]
  /\ chan' = [chan EXCEPT ![r] =
                CASE pc[r] = "unwind_ok" -> "ok"
                  [] pc[r] = "unwind_err" -> "err"
                  [] OTHER -> "closed"]
  /\ Goto(r, "done")
  /\ UNCHANGED <<active, env, cfg, exitCode, deadlineElapsed, podVars, loopVars, scratch,
                 events, staged, toolFail, contended>>

(***************************************************************************)
(* The supervisor: main                                                    *)
(***************************************************************************)
\* recv_timeout returns Ok(inner_result): main returns it.
Recv(r) ==
  /\ Alive(r)
  /\ chan[r] \in {"ok", "err"}
  /\ ProcessExit(r, IF chan[r] = "ok" THEN 0 ELSE 1)
  /\ UNCHANGED <<active, env, cfg, pc, chan, deadlineElapsed, podVars, loopVars, tar_core,
                 scratch, events, staged, histVars>>

\* recv_timeout returns Err(Disconnected): the worker panicked.
RecvDisconnected(r) ==
  /\ Alive(r)
  /\ chan[r] = "closed"
  /\ ProcessExit(r, TimeoutCode)
  /\ UNCHANGED <<active, env, cfg, pc, chan, deadlineElapsed, podVars, loopVars, tar_core,
                 scratch, events, staged, histVars>>

\* Mutant of Timeout: the supervisor joins the worker before it gives up.
Timeout_JoinsWorker(r) ==
  /\ Alive(r)
  /\ chan[r] = "empty"
  /\ pc[r] = "done"
  /\ deadlineElapsed' = [deadlineElapsed EXCEPT ![r] = TRUE]
  /\ ProcessExit(r, TimeoutCode)
  /\ UNCHANGED <<active, env, cfg, pc, chan, podVars, loopVars, tar_core, scratch, events,
                 staged, histVars>>

\* recv_timeout returns Err(Timeout): nothing was sent within cc.timeout.
Timeout(r) ==
  /\ Alive(r)
  /\ chan[r] = "empty"
  /\ deadlineElapsed' = [deadlineElapsed EXCEPT ![r] = TRUE]
  /\ ProcessExit(r, TimeoutCode)
  /\ UNCHANGED <<active, env, cfg, pc, chan, podVars, loopVars, tar_core, scratch, events,
                 staged, histVars>>

Worker(r) ==
  \/ InitLogger(r) \/ ResolvePod(r) \/ Selector(r) \/ CreateTar(r) \/ LockTar(r)
  \/ MkDir(r) \/ WriteInfo(r) \/ CreateCore(r) \/ LockCore(r) \/ CopyDump(r)
  \/ EncoderFinish(r) \/ NcEvent(r) \/ NcAppend(r) \/ NcFinish(r) \/ NcRemove(r)
  \/ WritePod(r) \/ InspectPod(r) \/ WriteInspect(r) \/ PodContainers(r)
  \/ WritePs(r) \/ ContainerLog(r) \/ ContainerImage(r) \/ TarAppend(r)
  \/ TarFinish(r) \/ RemoveScratch(r) \/ WriteEvent(r) \/ AbortFinish(r)
  \/ AbortRemove(r) \/ WorkerExit(r) \/ Unwind(r)

Supervisor(r) == Recv(r) \/ RecvDisconnected(r) \/ Timeout(r)

Next == \E r \in Runs : Worker(r) \/ Supervisor(r)

Spec == Init /\ [][Next]_vars

SpecTwo == InitTwo /\ [][Next]_vars

SpecStagingFaults == InitStagingFaults /\ [][Next]_vars

\* The supervisor's recv_timeout returns: at the deadline at the latest.
FairSpec == Spec /\ \A r \in Runs : WF_vars(Supervisor(r))

(***************************************************************************)
(* Vocabulary of the properties                                            *)
(***************************************************************************)
Exited(r) == exitCode[r] # {}
ExitedWith(r, code) == exitCode[r] = {code}
Archive(r) == arch[Dest(r)]
\* A sealed archive: its structure is finalized and its lock released.
SealedArchive(r) == Archive(r).exists /\ Archive(r).sealed /\ Archive(r).lockedBy = {}
\* Every artifact the run staged is in the archive.
FullyWritten(r) == staged[r] \subseteq Archive(r).files
\* The run ended, not by the deadline, and no file-system operation failed.
EndedClean(r) == Exited(r) /\ ~deadlineElapsed[r] /\ ioFault[r] = {}

(***************************************************************************)
(* C1..C10                                                                 *)
(***************************************************************************)

\* C1: a run ends with exit 0 and a sealed archive, with exit 1 and a sealed
\* archive holding a subset of the staged artifacts, or with exit 32; no run
\* ends with 0 or 1 while its archive is missing or unsealed.
C1_ExitOutcomes ==
  \A r \in active :
    Exited(r) =>
      \/ ExitedWith(r, 0) /\ SealedArchive(r)
      \/ ExitedWith(r, 1) /\ SealedArchive(r) /\ Archive(r).files \subseteq staged[r]
      \/ ExitedWith(r, TimeoutCode)

\* C2 (as claimed): once created, the archive is locked by the run until the
\* pipeline ends, and whenever it is unlocked it is fully written or the
\* process has already terminated with a non-zero status.
C2_LockedUntilWritten ==
  \A r \in active :
    Archive(r).exists =>
      /\ (~Exited(r) /\ pc[r] # "done") => Archive(r).lockedBy = {r}
      /\ Archive(r).lockedBy = {} =>
           FullyWritten(r) \/ (Exited(r) /\ ~ExitedWith(r, 0))

\* The pipeline ended in a failure: the worker returned an error or panicked,
\* or the process ended with a non-zero status.
EndedInFailure(r) ==
  \/ pc[r] = "done" /\ chan[r] \in {"err", "closed"}
  \/ Exited(r) /\ ~ExitedWith(r, 0)

\* C2 (amended): from the moment the run has locked the archive it created it
\* holds the lock while the worker is in the pipeline, and whenever the
\* archive exists unlocked it is fully written or the pipeline has already
\* ended in a failure (the process then ends with a non-zero status).
C2_LockedOnceAcquired ==
  \A r \in active :
    Archive(r).exists =>
      /\ (~Exited(r) /\ tar_core[r] \in {"builder", "finished"}) =>
           Archive(r).lockedBy = {r}
      /\ Archive(r).lockedBy = {} => FullyWritten(r) \/ EndedInFailure(r)

\* C2 witness: a failure after staging; the archive is sealed empty and the
\* lock is released by the exit of the process.
C2_Witness ==
  /\ ExitedWith(1, 1)
  /\ Archive(1).exists /\ Archive(1).lockedBy = {}
  /\ staged[1] # {} /\ ~FullyWritten(1)

\* C3: after an exit with 0 or 1 the scratch directory does not exist.
C3_ScratchRemoved ==
  \A r \in active : (ExitedWith(r, 0) \/ ExitedWith(r, 1)) => ~scratch.exists

\* C4: every run eventually terminates, wherever its worker is.
C4_Terminates == <>(\A r \in active : Exited(r))

\* C4 witness: the process ended with 32 while the worker was reading the
\* dump from standard input.
C4_Witness == ExitedWith(1, TimeoutCode) /\ pc[1] = "copy" /\ deadlineElapsed[1]

\* C5: exit 32 only when the deadline elapsed before the worker handed off
\* its result; a worker that ended before the deadline never yields 32.
C5_TimeoutCodeMeansDeadline ==
  \A r \in active :
    /\ ExitedWith(r, TimeoutCode) => deadlineElapsed[r]
    /\ (Exited(r) /\ chan[r] \in {"ok", "err"}) => ~ExitedWith(r, TimeoutCode)

\* C6: a run whose destination is locked by another run in flight ends with
\* exit 1 (it neither waits for the lock nor goes on to write the archive).
C6_LockedDestinationFailsFast ==
  \A r \in active :
    (contended[r] /\ Exited(r) /\ ~deadlineElapsed[r]) => ExitedWith(r, 1)

\* A label selector is configured and the labels of the resolved pod lack it.
LabelMismatch(r) == cfg[r].selector /\ pod_object[r].labels = "nokey"

\* C7 (as claimed): on a label mismatch the run exits 0 and the archive is
\* sealed and holds the dump only.
C7_MismatchArchivesDump ==
  \A r \in active :
    (LabelMismatch(r) /\ EndedClean(r)) =>
      ExitedWith(r, 0) /\ SealedArchive(r) /\ Kinds(Archive(r).files) = {"core"}

\* C7 (amended): on a label mismatch the run exits 0 and skips the whole
\* capture: no archive is created, nothing is staged, no event is written.
C7_MismatchSkipsCapture ==
  \A r \in active :
    (LabelMismatch(r) /\ EndedClean(r)) =>
      /\ ExitedWith(r, 0)
      /\ ~Archive(r).exists /\ ~scratch.exists /\ staged[r] = {}
      /\ \A e \in events : e.run # r

\* C7 witness: the selector is configured, the resolved pod lacks the label,
\* the process has ended with 0.
C7_Witness == LabelMismatch(1) /\ ExitedWith(1, 0)

\* C8 (as claimed): with correlation disabled, whatever the inspection tool
\* does, the run exits 0 with a sealed archive of the dump and its metadata.
C8_SkipCorrelation ==
  \A r \in active :
    (cfg[r].ignore_crio /\ EndedClean(r)) =>
      /\ ExitedWith(r, 0) /\ SealedArchive(r)
      /\ Kinds(Archive(r).files) = {"core", "dump_info"}

\* C8 (amended): the same, where no label selector is configured or the
\* resolved pod carries the selector label.
C8_SkipCorrelationUnfiltered ==
  \A r \in active :
    (/\ cfg[r].ignore_crio /\ EndedClean(r)
     /\ cfg[r].selector => pod_object[r].labels = "haskey") =>
      /\ ExitedWith(r, 0) /\ SealedArchive(r)
      /\ Kinds(Archive(r).files) = {"core", "dump_info"}

\* C8 witness: correlation disabled, the pod resolution failed, exit 0.
C8_Witness == cfg[1].ignore_crio /\ "pod" \in toolFail[1] /\ ExitedWith(1, 0)

\* C9: a failed pod resolution is never fatal: namespace and pod name are
\* "unknown", the archive is sealed and the exit code is 0.
C9_ResolutionFailureSucceeds ==
  \A r \in active :
    ("pod" \in toolFail[r] /\ EndedClean(r)) =>
      /\ ExitedWith(r, 0) /\ SealedArchive(r)
      /\ namespace[r] = "unknown" /\ podname[r] = "unknown"

\* C10: pod resolved with an id, container list failed: exit 1 and a sealed
\* archive with the dump, its metadata and the pod info, and no log or image.
C10_ContainerListFailure ==
  \A r \in active :
    (/\ pod_object[r].id # "none"
     /\ "pod_containers" \in toolFail[r]
     /\ EndedClean(r)) =>
      /\ ExitedWith(r, 1) /\ SealedArchive(r)
      /\ {"core", "dump_info", "pod"} \subseteq Kinds(Archive(r).files)
      /\ Kinds(Archive(r).files) \cap {"log", "image"} = {}

(***************************************************************************)
(* C11..C20                                                                *)
(***************************************************************************)
\* The indices of the artifacts of one kind.
IdxOf(files, kind) == {f.idx : f \in {g \in files : g.kind = kind}}
\* The containers in front of the first one that has no imageRef.
Reached(cs) == {k \in 0..(Len(cs) - 1) : \A j \in 1..(k + 1) : cs[j]}
\* The process list of the pod was staged: cli.pod_containers succeeded.
ListStaged(r) == "ps" \in Kinds(staged[r])

\* C11 (as claimed): three containers, the second without an imageRef: the
\* archive holds the logs and images of containers 0 and 1 and the run
\* exits 0.
C11_SecondMissingKeepsTwo ==
  \A r \in active :
    (/\ Len(ps_object[r]) = 3 /\ ps_object[r][1] /\ ~ps_object[r][2]
     /\ EndedClean(r)) =>
      /\ ExitedWith(r, 0)
      /\ IdxOf(Archive(r).files, "log") = {0, 1}
      /\ IdxOf(Archive(r).files, "image") = {0, 1}

\* C11 (amended): the loop ends at the first container without an imageRef,
\* before anything is written for it: the archive holds the logs and images
\* of the containers in front of it (container 0 alone when the second of
\* three lacks the reference), and the run exits 0 with a sealed archive.
C11_LoopEndsAtMissingRef ==
  \A r \in active :
    (ListStaged(r) /\ EndedClean(r)) =>
      /\ ExitedWith(r, 0) /\ SealedArchive(r)
      /\ IdxOf(Archive(r).files, "log") = Reached(ps_object[r])
      /\ IdxOf(Archive(r).files, "image") = Reached(ps_object[r])

\* C11 witness: three containers, the second without an imageRef, exit 0
\* with the log and the image of container 0 only.
C11_Witness ==
  /\ ps_object[1] = <<TRUE, FALSE, TRUE>>
  /\ ExitedWith(1, 0) /\ SealedArchive(1)
  /\ IdxOf(Archive(1).files, "log") = {0}
  /\ IdxOf(Archive(1).files, "image") = {0}

\* The event records of a run.
EventOf(r) == {e \in events : e.run = r}

\* C12: a run writes at most one event, and only once its archive holds
\* the staged artifacts and is sealed.
C12_EventAfterFinalize ==
  \A r \in active :
    /\ Cardinality(EventOf(r)) <= 1
    /\ EventOf(r) # {} => Archive(r).sealed /\ FullyWritten(r)

\* C13: a run that ends with the failure status 1 has written no event.
C13_NoEventOnFailure ==
  \A r \in active : ExitedWith(r, 1) => EventOf(r) = {}

\* C14: the archive a run created is sealed before the run removes the
\* scratch directory and before it exits with 0 or 1.
C14_FinalizedOnEveryExit ==
  \A r \in active :
    /\ (tar_core[r] = "builder" /\ staged[r] # {}) => scratch.exists
    /\ (Archive(r).exists /\ (ExitedWith(r, 0) \/ ExitedWith(r, 1))) =>
         Archive(r).sealed

\* The compressed dump is completely written to the scratch directory.
DumpStaged(r) == Artifact(r, "core", 0, "gz") \in staged[r]

\* C15 (as claimed): no metadata file, the dump metadata included, is
\* staged before the compressed dump is completely written.
C15_DumpBeforeMetadata ==
  \A r \in active : (Kinds(staged[r]) \ {"core"} # {}) => DumpStaged(r)

\* C15 (amended): the dump metadata is staged first, then the dump; no
\* pod-info, inspect-pod, process-list, log or image file is staged before
\* the compressed dump is completely written.
C15_DumpBeforeCorrelation ==
  \A r \in active :
    /\ "core" \in Kinds(staged[r]) => "dump_info" \in Kinds(staged[r])
    /\ (Kinds(staged[r]) \ {"core", "dump_info"} # {}) => DumpStaged(r)

\* C15 witness: the pod info is staged, after the complete dump and the
\* dump metadata.
C15_Witness ==
  /\ DumpStaged(1)
  /\ {"dump_info", "pod"} \subseteq Kinds(staged[1])

\* C16: from the first staging write until the worker hands off its result
\* or the process ends, the destination archive exists and the run holds its
\* exclusive lock.
C16_LockedBeforeStaging ==
  \A r \in active :
    (staged[r] # {} /\ ~Exited(r) /\ chan[r] = "empty") =>
      Archive(r).exists /\ Archive(r).lockedBy = {r}

\* C16 witness: the run is staging the per-container files and holds the
\* lock of its archive.
C16_Witness ==
  /\ ~Exited(1) /\ pc[1] = "container_image"
  /\ "log" \in Kinds(staged[1])
  /\ Archive(1).exists /\ Archive(1).lockedBy = {1}

\* The positions of the worker at which it removes the scratch directory.
RemovalSites == {"nc_rm", "abort_rm", "rm"}

\* C17: a run in which nothing failed but the removal of the scratch
\* directory ends with the status decided before the removal: 1 on a
\* failure path, 0 on a success path.
C17_RemovalFailureKeepsCode ==
  \A r \in active :
    (/\ ioFault[r] # {} /\ ioFault[r] \subseteq RemovalSites
     /\ Exited(r) /\ ~deadlineElapsed[r]) =>
      ExitedWith(r, IF "abort_rm" \in ioFault[r] THEN 1 ELSE 0)

\* The run takes the correlation path and reaches the inspection of the pod.
Correlated(r) ==
  /\ ~cfg[r].ignore_crio
  /\ pod_object[r].id # "none"
  /\ cfg[r].selector => pod_object[r].labels = "haskey"
\* The names of the artifacts: kind and index, whatever the content.
Names(files) == {<<f.kind, f.idx>> : f \in files}
\* The names the archive holds when every query that can degrade succeeds.
ExpectedNames(r) ==
  IF "pod_containers" \in toolFail[r]
  THEN {}
  ELSE {<<k, 0>> : k \in {"dump_info", "core", "pod", "inspect_pod", "ps"}}
       \cup ({"log", "image"} \X Reached(ps_object[r]))
\* The contents staged under one kind.
DataOf(r, kind) == {f.data : f \in {g \in staged[r] : g.kind = kind}}

\* C18: the exit status and the names of the artifacts in the archive are
\* those of the run in which the inspection of the pod, every log query and
\* every image query succeeds, and a failed log or image query leaves the
\* empty value in its file.
C18_DegradedNeverEscalates ==
  \A r \in active :
    (Correlated(r) /\ EndedClean(r)) =>
      /\ ExitedWith(r, IF "pod_containers" \in toolFail[r] THEN 1 ELSE 0)
      /\ Names(Archive(r).files) = ExpectedNames(r)
      /\ "" \in DataOf(r, "log") <=> "tail_logs" \in toolFail[r]
      /\ "{}" \in DataOf(r, "image") <=> "image" \in toolFail[r]

\* C18 witness: the inspection of the pod, a log query and an image query
\* failed, and the run exits 0 with the log and the image in the archive.
C18_Witness ==
  /\ Correlated(1) /\ ExitedWith(1, 0) /\ SealedArchive(1)
  /\ {"inspect_pod", "tail_logs", "image"} \subseteq toolFail[1]
  /\ {<<"log", 0>>, <<"image", 0>>} \subseteq Names(Archive(1).files)

\* C19: the inspect-pod file holds the object the inspection of the pod
\* returned, and the empty object when that query failed.
C19_InspectPodContent ==
  \A r \in active :
    DataOf(r, "inspect_pod") \subseteq
      {IF "inspect_pod" \in toolFail[r] THEN "{}" ELSE "inspectp"}

\* C20: with two runs for different destinations, the sealed archive of a
\* run that exits 0 holds exactly what that run staged, and while a run has
\* not yet finalized its archive nothing it staged is missing from the
\* scratch directory.
C20_PrivateScratch ==
  \A r \in active :
    cfg[1].dest # cfg[2].dest =>
      /\ (ExitedWith(r, 0) /\ SealedArchive(r)) => Archive(r).files = staged[r]
      /\ (~Exited(r) /\ tar_core[r] = "builder") => staged[r] \subseteq scratch.files

====
